---- MODULE Spec2Model ----
(***************************************************************************)
(* Model of scripts/generate_binding.py: the pipeline that installs the    *)
(* kernel headers, unifies them with the hypervisor headers, runs bindgen  *)
(* and annotates the generated bindings.                                   *)
(*                                                                         *)
(* A text is a sequence of one-character strings; "\n" ends a line.        *)
(***************************************************************************)
EXTENDS Integers, Sequences, FiniteSets, TLC

VARIABLES
    pc,            \* position of the run (Spec) or of the text pipeline (TextSpec)
    arch,          \* args.arch
    kernel_is_dir, \* Path(args.kernel_src_path).is_dir()
    installed,     \* the commands shutil.which finds
    hvFiles,       \* the files of args.hv_hdrs_path: name -> text, NoText if absent
    kernelTree,    \* include/linux/mshv.h as the kernel tree exports it
    tmpExists,     \* the directory kernel_hdr_path exists
    tmpFiles,      \* the files under kernel_hdr_path: name -> text, NoText if absent
    outInit,       \* what the output tree held before the run
    outFiles,      \* the output tree: path -> file, NoFile or NoDir
    output_file,   \* main's output_file, "" until it is computed
    raw_bindings,  \* what bindgen wrote to its standard output
    calls,         \* the external commands run so far, with their exit status
    stages,        \* the stages started so far
    failed_stage,  \* the stage that failed, "" if none
    exit_status,   \* <<>> while running, <<status>> once the process has exited
    data,          \* generate_unified_mshv_headers: data after the two read loops
    stripped,      \* data after the filename loop (lines 67-69)
    rewritten,     \* data after the BIT() substitution (line 71)
    twice          \* the BIT() substitution applied to rewritten once more

runVars == <<arch, kernel_is_dir, installed, hvFiles, kernelTree, tmpExists,
             tmpFiles, outInit, outFiles, output_file, raw_bindings, calls,
             stages, failed_stage, exit_status>>

vars == <<pc, runVars, data, stripped, rewritten, twice>>

NoText == <<"<none>">>
NoFile == <<"<no file>">>
NoDir == <<"<no directory>">>

----------------------------------------------------------------------------
(* Bounds of the model. *)

\* Number of pieces an input text of TextSpec is built from.
MaxPieces == 4

\* Number of tokens bindgen writes to its standard output.
MaxOutTokens == 3

----------------------------------------------------------------------------
(* The declared header lists (lines 14-23). *)

mshv_header_files == << "include/linux/mshv.h" >>

hv_header_files == << "hvgdk_mini.h", "hvgdk.h", "hvhdk_mini.h", "hvhdk.h" >>

\* The characters of a header filename, as interpolated by the f-string of
\* line 68 into the regular expression.
Chars(header_name) ==
    CASE header_name = "hvgdk_mini.h" ->
             <<"h","v","g","d","k","_","m","i","n","i",".","h">>
      [] header_name = "hvgdk.h" -> <<"h","v","g","d","k",".","h">>
      [] header_name = "hvhdk_mini.h" ->
             <<"h","v","h","d","k","_","m","i","n","i",".","h">>
      [] header_name = "hvhdk.h" -> <<"h","v","h","d","k",".","h">>

----------------------------------------------------------------------------
(* re.sub(f".*{header_name}.*", "", data, flags=re.M)   (lines 67-69)      *)

\* One pattern character against one text character: the pattern is compiled
\* as a regular expression, so "." stands for any character but a newline.
AtomMatches(p, c) == IF p = "." THEN c # "\n" ELSE p = c

\* The filename part of the pattern matches the characters starting at j.
NameMatchesAt(text, j, pat) ==
    /\ j + Len(pat) - 1 <= Len(text)
    /\ \A k \in 1..Len(pat) : AtomMatches(pat[k], text[j + k - 1])

\* Where a ".*" starting at i stops: the next newline, or the end of the text.
RECURSIVE LineEnd(_, _)
LineEnd(text, i) ==
    IF i > Len(text) \/ text[i] = "\n" THEN i ELSE LineEnd(text, i + 1)

\* The whole pattern .*NAME.* matches at i, on a line that ends before e: the
\* leading .* takes some characters of the line, NAME follows inside the line
\* (no pattern character matches a newline), the trailing .* takes the rest.
LineMatchesAt(text, i, e, pat) ==
    \E j \in i..(e - Len(pat)) : NameMatchesAt(text, j, pat)

\* re.sub scans left to right; a match is replaced by "" and the scan goes on
\* after it, a position with no match keeps its character.
RECURSIVE SubLine(_, _, _)
SubLine(text, i, pat) ==
    IF i > Len(text) THEN <<>>
    ELSE LET e == LineEnd(text, i)
         IN IF LineMatchesAt(text, i, e, pat)
            THEN SubLine(text, e, pat)
            ELSE <<text[i]>> \o SubLine(text, i + 1, pat)

\* The substitution with the pattern written without its two ".*": only the
\* filename itself is replaced by "".
RECURSIVE SubName(_, _, _)
SubName(text, i, pat) ==
    IF i > Len(text) THEN <<>>
    ELSE IF NameMatchesAt(text, i, pat)
         THEN SubName(text, i + Len(pat), pat)
         ELSE <<text[i]>> \o SubName(text, i + 1, pat)

StripHeaderNameOnly(text, header_name) == SubName(text, 1, Chars(header_name))

StripHeader(text, header_name) == SubLine(text, 1, Chars(header_name))

\* for header_name in hv_header_files: data = re.sub(...)
RECURSIVE StripLoop(_, _)
StripLoop(text, k) ==
    IF k > Len(hv_header_files) THEN text
    ELSE StripLoop(StripHeader(text, hv_header_files[k]), k + 1)

StripAll(text) == StripLoop(text, 1)

----------------------------------------------------------------------------
(* re.sub(r"BIT\(([A-Z_0-9]+)\)", "(1 << (\\1))", data, flags=re.M)  (71)  *)

\* The class of a pattern written BIT\(([^)\n]+)\): any character of the
\* texts but ")" and the newline.
NameCharsAnyButParen ==
    {"A","B","C","D","E","F","G","H","I","J","K","L","M","N","O","P","Q",
     "R","S","T","U","V","W","X","Y","Z","_",
     "0","1","2","3","4","5","6","7","8","9",
     "(", " ", "<", ".", "d","g","h","i","k","m","n","v"}

\* [A-Z_0-9]
NameChars ==
    {"A","B","C","D","E","F","G","H","I","J","K","L","M","N","O","P","Q",
     "R","S","T","U","V","W","X","Y","Z","_",
     "0","1","2","3","4","5","6","7","8","9"}

BitOpen == <<"B","I","T","(">>

\* The literal BIT\( of the pattern matches at i.
OpensAt(text, i) ==
    /\ i + Len(BitOpen) - 1 <= Len(text)
    /\ \A k \in 1..Len(BitOpen) : text[i + k - 1] = BitOpen[k]

\* The lengths n of group 1 with which the pattern matches at i.
GroupLens(text, i) ==
    IF ~ OpensAt(text, i) THEN {}
    ELSE { n \in 1..(Len(text) - i - Len(BitOpen)) :
             /\ \A k \in 1..n : text[i + Len(BitOpen) + k - 1] \in NameChars
             /\ text[i + Len(BitOpen) + n] = ")" }

\* The + is greedy: the longest group wins.
GroupLen(text, i) ==
    LET ns == GroupLens(text, i)
    IN IF ns = {} THEN 0 ELSE CHOOSE n \in ns : \A m \in ns : m <= n

ReplacementNoInnerParens(name) == <<"(","1"," ","<","<"," ">> \o name \o <<")">>

Replacement(name) == <<"(","1"," ","<","<"," ","(">> \o name \o <<")",")">>

RECURSIVE SubBit(_, _)
SubBit(text, i) ==
    IF i > Len(text) THEN <<>>
    ELSE LET n == GroupLen(text, i)
         IN IF n > 0
            THEN Replacement(SubSeq(text, i + Len(BitOpen), i + Len(BitOpen) + n - 1))
                     \o SubBit(text, i + Len(BitOpen) + n + 1)
            ELSE <<text[i]>> \o SubBit(text, i + 1)

RewriteBit(text) == SubBit(text, 1)

\* fp.write("typedef _Bool bool;\n") (line 52)
Preamble ==
    <<"t","y","p","e","d","e","f"," ","_","B","o","o","l"," ","b","o","o","l",";","\n">>

\* The text of combined_mshv.h once fp is closed: the preamble, then data.
CombinedText(text) == Preamble \o text

----------------------------------------------------------------------------
(* The files of a run. *)

HvNames == { hv_header_files[k] : k \in 1..Len(hv_header_files) }

MshvNames == { mshv_header_files[k] : k \in 1..Len(mshv_header_files) }

CombinedName == "combined_mshv.h"

RECURSIVE Flatten(_)
Flatten(ps) == IF ps = <<>> THEN <<>> ELSE Head(ps) \o Flatten(Tail(ps))

\* get_arch_location returning its argument for every tag.
ArchUnmapped(a) == a

\* get_arch_location (lines 107-111)
get_arch_location(a) == IF a = "x86" THEN "x86_64" ELSE a

\* f"{args.output}/{arch_location}/bindings.rs" (line 132), relative to
\* args.output.
OutputPath(arch_location) ==
    CASE arch_location = "x86" -> "x86/bindings.rs"
      [] arch_location = "x86_64" -> "x86_64/bindings.rs"
      [] arch_location = "arm64" -> "arm64/bindings.rs"

OutPaths == { OutputPath(l) : l \in {"x86", "x86_64", "arm64"} }

\* sys.exit(res): the exit status is the low byte of res.
SysExit(res) == << res % 256 >>

\* An uncaught exception ends the interpreter with status 1.
Uncaught == << 1 >>

\* data += f.read() for each header of names, in the order of the list
\* (lines 55-59 and 61-65).
RECURSIVE ReadAll(_, _, _)
ReadAll(names, files, k) ==
    IF k > Len(names) THEN <<>>
    ELSE files[names[k]] \o ReadAll(names, files, k + 1)

\* open(header_path, "r") succeeds for every header of names.
AllReadable(names, files) == \A k \in 1..Len(names) : files[names[k]] # NoText

\* The two read loops in the other order: the kernel headers first.
ConcatKernelFirst(hv, tmp) ==
    ReadAll(mshv_header_files, tmp, 1) \o ReadAll(hv_header_files, hv, 1)

\* data after the two read loops (lines 53-65).
ConcatHeaders(hv, tmp) ==
    ReadAll(hv_header_files, hv, 1) \o ReadAll(mshv_header_files, tmp, 1)

\* rmtree after every bindgen run, failed or not.
CleanedUpAlways(rc) == TRUE

\* run_bindgen reaches rmtree(kernel_hdr_path) (line 87) only when check_call
\* (line 85) did not raise.
CleanedUp(rc) == rc = 0

----------------------------------------------------------------------------
(* update_bindings_comment (lines 90-104). A bindings file is a sequence   *)
(* of tokens; the token "\n" ends a line.                                  *)

\* f.readlines(): every line keeps its newline; the last may have none.
RECURSIVE ReadLines(_)
ReadLines(file) ==
    IF file = <<>> THEN <<>>
    ELSE LET e == CHOOSE i \in 1..Len(file) :
                      /\ file[i] = "\n" \/ i = Len(file)
                      /\ \A j \in 1..(i - 1) : file[j] # "\n"
         IN << SubSeq(file, 1, e) >> \o ReadLines(SubSeq(file, e + 1, Len(file)))

\* list[i:i] = items: the index is clamped to the length of the list.
SpliceAt(list, i, items) ==
    LET at == IF i > Len(list) THEN Len(list) ELSE i
    IN SubSeq(list, 1, at) \o items \o SubSeq(list, at + 1, Len(list))

\* map(lambda s: f" * {s}\n", names)
RECURSIVE CommentFor(_, _)
CommentFor(names, k) ==
    IF k > Len(names) THEN <<>>
    ELSE << <<" * ", names[k], "\n">> >> \o CommentFor(names, k + 1)

\* comment_lines after line 96.
comment_lines ==
    SpliceAt(<< <<"/*", "\n">>,
                <<" * Kernel (uapi) headers used for these bindings are as follows:", "\n">>,
                <<" */", "\n">> >>,
             2, CommentFor(mshv_header_files, 1))

\* The block put before the first line.
LinesWithCommentFirst(lines) == SpliceAt(lines, 0, comment_lines)

\* lines[1:1] = comment_lines (line 101)
LinesWithComment(lines) == SpliceAt(lines, 1, comment_lines)

\* The file as rewritten by lines 98-104.
Annotated(file) == Flatten(LinesWithComment(ReadLines(file)))

----------------------------------------------------------------------------
(* Spec: one run of the script.                                            *)

Marker(name) ==
    CASE name = "hvgdk_mini.h" -> "q"
      [] name = "hvgdk.h" -> "r"
      [] name = "hvhdk_mini.h" -> "s"
      [] name = "hvhdk.h" -> "u"
      [] name = "include/linux/mshv.h" -> "w"

\* The bodies a header may have: one plain line, or a line naming a
\* hypervisor header followed by an unterminated line with a BIT() macro.
Bodies(name) ==
    { << Marker(name), "\n" >>,
      Chars(IF name \in {"hvgdk_mini.h", "hvgdk.h"} THEN "hvhdk.h" ELSE "hvgdk_mini.h")
          \o << "\n" >> \o BitOpen \o << "F", ")", Marker(name) >> }

OutTokens == {"a", "b", "\n"}

RECURSIVE TokenSeqs(_)
TokenSeqs(n) ==
    IF n = 0 THEN { <<>> }
    ELSE LET shorter == TokenSeqs(n - 1)
         IN shorter \cup { Append(s, t) : s \in { x \in shorter : Len(x) = n - 1 }, t \in OutTokens }

\* What bindgen may write to its standard output, in whole or before failing.
BindgenOutputs == TokenSeqs(MaxOutTokens)

OldBindings == << "old", "\n" >>

NoTmpFiles == [ f \in MshvNames \cup {CombinedName} |-> NoText ]

Init ==
    /\ pc = "start"
    /\ arch \in {"x86", "arm64"}
    /\ kernel_is_dir \in BOOLEAN
    /\ installed \in SUBSET {"bindgen", "make"}
    /\ hvFiles \in { f \in [HvNames -> UNION { Bodies(h) : h \in HvNames } \cup {NoText}] :
                       \A h \in HvNames : f[h] \in Bodies(h) \cup {NoText} }
    /\ kernelTree \in Bodies("include/linux/mshv.h")
    /\ tmpExists = FALSE
    /\ tmpFiles = NoTmpFiles
    /\ outInit \in {NoDir, NoFile, OldBindings}
    /\ outFiles = [ p \in OutPaths |-> outInit ]
    /\ output_file = ""
    /\ raw_bindings = NoFile
    /\ calls = <<>>
    /\ stages = <<>>
    /\ failed_stage = ""
    /\ exit_status = <<>>
    /\ data = NoText
    /\ stripped = NoText
    /\ rewritten = NoText
    /\ twice = NoText

\* The stage that is running raises, or returns a status main hands to sys.exit.
Abort(stage, status) ==
    /\ pc' = "exited"
    /\ failed_stage' = stage
    /\ exit_status' = status

\* __main__, lines 209-211
CheckKernelPath ==
    /\ pc = "start"
    /\ stages' = Append(stages, "check_path")
    /\ IF kernel_is_dir
       THEN pc' = "main" /\ UNCHANGED <<failed_stage, exit_status>>
       ELSE Abort("check_path", SysExit(-1))
    /\ UNCHANGED <<arch, kernel_is_dir, installed, hvFiles, kernelTree, tmpExists,
                   tmpFiles, outInit, outFiles, output_file, raw_bindings, calls,
                   data, stripped, rewritten, twice>>

\* main, lines 115-123; sys.exit(res) of line 214
CheckTools ==
    /\ pc = "main"
    /\ stages' = Append(stages, "check_tools")
    /\ IF "bindgen" \notin installed
       THEN Abort("check_tools", SysExit(-1))
       ELSE IF "make" \notin installed
            THEN Abort("check_tools", SysExit(-1))
            ELSE pc' = "install" /\ UNCHANGED <<failed_stage, exit_status>>
    /\ UNCHANGED <<arch, kernel_is_dir, installed, hvFiles, kernelTree, tmpExists,
                   tmpFiles, outInit, outFiles, output_file, raw_bindings, calls,
                   data, stripped, rewritten, twice>>

\* install_kernel_headers(args.kernel_src_path, args.arch), lines 30-45 and 125;
\* check is the check= argument of subprocess.run.
Install(check) ==
    /\ pc = "install"
    /\ stages' = Append(stages, "install")
    /\ tmpExists' = TRUE
    /\ \E rc \in {0, 2} :
         /\ calls' = Append(calls, [cmd |-> "make", arg |-> arch, rc |-> rc])
         /\ tmpFiles' = IF rc = 0
                        THEN [tmpFiles EXCEPT ![mshv_header_files[1]] = kernelTree]
                        ELSE tmpFiles
         /\ IF rc # 0 /\ check
            THEN Abort("install", Uncaught)
            ELSE /\ pc' = "unify"
                 /\ failed_stage' = IF rc # 0 THEN "install" ELSE failed_stage
                 /\ UNCHANGED exit_status
    /\ UNCHANGED <<arch, kernel_is_dir, installed, hvFiles, kernelTree, outInit,
                   outFiles, output_file, raw_bindings, data, stripped, rewritten,
                   twice>>

InstallUnchecked == Install(FALSE)

InstallKernelHeaders == Install(TRUE)

\* generate_unified_mshv_headers(kernel_hdr_path, args.hv_hdrs_path), lines 48-75
GenerateUnified ==
    /\ pc = "unify"
    /\ stages' = Append(stages, "unify")
    /\ IF AllReadable(hv_header_files, hvFiles) /\ AllReadable(mshv_header_files, tmpFiles)
       THEN /\ data' = ConcatHeaders(hvFiles, tmpFiles)
            /\ stripped' = StripAll(data')
            /\ rewritten' = RewriteBit(stripped')
            /\ tmpFiles' = [tmpFiles EXCEPT ![CombinedName] = CombinedText(rewritten')]
            /\ pc' = "bindgen"
            /\ UNCHANGED <<failed_stage, exit_status>>
       ELSE \* an open() raises: fp is closed with the preamble alone
            /\ tmpFiles' = [tmpFiles EXCEPT ![CombinedName] = Preamble]
            /\ Abort("unify", Uncaught)
            /\ UNCHANGED <<data, stripped, rewritten>>
    /\ UNCHANGED <<arch, kernel_is_dir, installed, hvFiles, kernelTree, tmpExists,
                   outInit, outFiles, output_file, raw_bindings, calls, twice>>

\* main, lines 128-134, and run_bindgen, lines 78-87. The shell opens
\* output_file for writing before it starts bindgen.
RunBindgen ==
    /\ pc = "bindgen"
    /\ stages' = Append(stages, "bindgen")
    /\ output_file' = OutputPath(get_arch_location(arch))
    /\ \/ /\ outFiles[output_file'] = NoDir
          /\ calls' = Append(calls, [cmd |-> "bindgen", arg |-> output_file', rc |-> 1])
          /\ Abort("bindgen", Uncaught)
          /\ UNCHANGED <<outFiles, raw_bindings, tmpExists, tmpFiles>>
       \/ /\ outFiles[output_file'] # NoDir
          /\ \E out \in BindgenOutputs, rc \in {0, 1} :
               /\ calls' = Append(calls, [cmd |-> "bindgen", arg |-> output_file', rc |-> rc])
               /\ outFiles' = [outFiles EXCEPT ![output_file'] = out]
               /\ raw_bindings' = out
               /\ tmpExists' = IF CleanedUp(rc) THEN FALSE ELSE tmpExists
               /\ tmpFiles' = IF CleanedUp(rc) THEN NoTmpFiles ELSE tmpFiles
               /\ IF rc = 0
                  THEN pc' = "annotate" /\ UNCHANGED <<failed_stage, exit_status>>
                  ELSE Abort("bindgen", Uncaught)
    /\ UNCHANGED <<arch, kernel_is_dir, installed, hvFiles, kernelTree, outInit,
                   data, stripped, rewritten, twice>>

\* update_bindings_comment(output_file), lines 90-104 and 135
UpdateBindingsComment ==
    /\ pc = "annotate"
    /\ stages' = Append(stages, "annotate")
    /\ \/ /\ outFiles' = [outFiles EXCEPT ![output_file] = Annotated(outFiles[output_file])]
          /\ pc' = "return"
          /\ UNCHANGED <<failed_stage, exit_status>>
       \/ \* reading the file raises (it does not decode in the locale's encoding)
          /\ Abort("annotate", Uncaught)
          /\ UNCHANGED outFiles
    /\ UNCHANGED <<arch, kernel_is_dir, installed, hvFiles, kernelTree, tmpExists,
                   tmpFiles, outInit, output_file, raw_bindings, calls, data,
                   stripped, rewritten, twice>>

\* return 0 (line 137) and sys.exit(res) (line 214)
Exit ==
    /\ pc = "return"
    /\ pc' = "exited"
    /\ exit_status' = SysExit(0)
    /\ UNCHANGED <<arch, kernel_is_dir, installed, hvFiles, kernelTree, tmpExists,
                   tmpFiles, outInit, outFiles, output_file, raw_bindings, calls,
                   stages, failed_stage, data, stripped, rewritten, twice>>

Next ==
    \/ CheckKernelPath
    \/ CheckTools
    \/ InstallKernelHeaders
    \/ GenerateUnified
    \/ RunBindgen
    \/ UpdateBindingsComment
    \/ Exit

Spec == Init /\ [][Next]_vars

----------------------------------------------------------------------------
(* Properties of a run. *)

BindgenCalls == { k \in 1..Len(calls) : calls[k].cmd = "bindgen" }

MakeCalls == { k \in 1..Len(calls) : calls[k].cmd = "make" }

Exited == pc = "exited"

ExitedOk == pc = "exited" /\ exit_status = <<0>>

\* The long form of the tag, tag by tag.
LongForm(a) == CASE a = "x86" -> "x86_64" [] a = "arm64" -> "arm64"

BindingsPath(a) ==
    CASE a = "x86" -> "x86_64/bindings.rs" [] a = "arm64" -> "arm64/bindings.rs"

TitleLine == <<" * Kernel (uapi) headers used for these bindings are as follows:", "\n">>

FirstLineEnded(lines) == Len(lines) >= 1 /\ lines[1][Len(lines[1])] = "\n"

C3_NoPartialBindings ==
    Exited =>
        \A p \in OutPaths :
            \/ outFiles[p] = outInit
            \/ /\ exit_status = <<0>>
               /\ outFiles[p] = Annotated(raw_bindings)

MarkerRank(c) ==
    CASE c = "q" -> 1 [] c = "r" -> 2 [] c = "s" -> 3 [] c = "u" -> 4 [] c = "w" -> 5
      [] OTHER -> 0

(* C7: the combined header is the preamble, then the hypervisor headers in *)
(* the declared order hvgdk_mini.h, hvgdk.h, hvhdk_mini.h, hvhdk.h, then   *)
(* the kernel-exported header; all hypervisor content stands before all    *)
(* kernel content.                                                         *)
C7_ConcatenationOrder ==
    pc = "bindgen" =>
        LET c == tmpFiles[CombinedName]
            bodies == hvFiles["hvgdk_mini.h"] \o hvFiles["hvgdk.h"]
                        \o hvFiles["hvhdk_mini.h"] \o hvFiles["hvhdk.h"] \o kernelTree
        IN /\ data = bodies
           /\ c = Preamble \o RewriteBit(StripAll(bodies))
           /\ \A i, j \in 1..Len(c) :
                (i < j /\ MarkerRank(c[i]) > 0 /\ MarkerRank(c[j]) > 0)
                    => MarkerRank(c[i]) < MarkerRank(c[j])
           /\ \E j \in (Len(Preamble) + 1)..Len(c) : c[j] = "w"

\* The content of all five headers is in the combined header, and the
\* filename loop and the BIT() rewrite both changed the text.
C7_Witness ==
    /\ pc = "bindgen"
    /\ \A r \in 1..5 : \E i \in 1..Len(tmpFiles[CombinedName]) :
                           MarkerRank(tmpFiles[CombinedName][i]) = r
    /\ stripped # data
    /\ rewritten # stripped

(* C8: once bindgen has exited zero the temporary directory and the        *)
(* combined header are gone, before the annotator starts and at exit; when *)
(* it exits non-zero the run aborts, the annotator never runs and the      *)
(* temporary directory is still there at exit.                             *)
C8_TmpDirLifecycle ==
    /\ \A k \in BindgenCalls :
         IF calls[k].rc = 0
         THEN /\ ~ tmpExists
              /\ tmpFiles = NoTmpFiles
         ELSE /\ Exited
              /\ exit_status # <<0>>
              /\ \A n \in 1..Len(stages) : stages[n] # "annotate"
              /\ tmpExists
              /\ tmpFiles[CombinedName] # NoText
    /\ (pc \in {"annotate", "return"} \/ \E n \in 1..Len(stages) : stages[n] = "annotate")
           => ~ tmpExists /\ \E k \in BindgenCalls : calls[k].rc = 0

\* bindgen wrote part of its output and exited non-zero.
C8_Witness ==
    /\ Exited
    /\ \E k \in BindgenCalls : calls[k].rc # 0
    /\ outFiles[output_file] \notin {NoDir, NoFile, outInit}
    /\ tmpExists

C8_WitnessSuccess ==
    /\ ExitedOk
    /\ \E k \in BindgenCalls : calls[k].rc = 0
    /\ ~ tmpExists

ToolMissing == "bindgen" \notin installed \/ "make" \notin installed

(* C9: with bindgen or make absent the run ends with a non-zero status     *)
(* before any work: no temporary directory, no external command, no        *)
(* combined header, no bindings file written; and a failure of any stage   *)
(* ends the run with a non-zero status, no later stage running.            *)
C9_FailuresAbort ==
    /\ ToolMissing =>
         /\ ~ tmpExists
         /\ tmpFiles = NoTmpFiles
         /\ calls = <<>>
         /\ outFiles = [ p \in OutPaths |-> outInit ]
         /\ Exited => exit_status = <<255>>
    /\ (\E k \in 1..Len(calls) : calls[k].rc # 0) => failed_stage # ""
    /\ failed_stage # "" =>
         /\ Exited
         /\ exit_status \in {<<1>>, <<255>>}
         /\ stages[Len(stages)] = failed_stage
    /\ ExitedOk =>
         /\ failed_stage = ""
         /\ stages = <<"check_path", "check_tools", "install", "unify", "bindgen", "annotate">>

\* make is absent: the run ended in the tool check.
C9_Witness ==
    /\ Exited
    /\ kernel_is_dir
    /\ installed = {"bindgen"}
    /\ failed_stage = "check_tools"

C9_WitnessStage ==
    /\ Exited
    /\ failed_stage = "install"
    /\ calls[Len(calls)].rc # 0

----------------------------------------------------------------------------
(* TextSpec: the two substitutions of generate_unified_mshv_headers on     *)
(* every text built from at most MaxPieces pieces.                         *)

Pieces ==
    { <<"h","v","g","d","k">>, <<"h","v","h","d","k","_","m","i","n","i">>,
      <<".","h">>, <<"_","h">>,
      <<"\n">>, BitOpen, <<"A","_","1">>, <<")">> }

RECURSIVE PieceSeqs(_)
PieceSeqs(n) ==
    IF n = 0 THEN { <<>> }
    ELSE LET shorter == PieceSeqs(n - 1)
         IN shorter \cup { Append(s, p) : s \in { t \in shorter : Len(t) = n - 1 }, p \in Pieces }

Texts == { Flatten(ps) : ps \in PieceSeqs(MaxPieces) }

\* No run is in progress.
RunIdle ==
    /\ arch = "x86"
    /\ kernel_is_dir = TRUE
    /\ installed = {"bindgen", "make"}
    /\ hvFiles = [ h \in HvNames |-> NoText ]
    /\ kernelTree = NoText
    /\ tmpExists = FALSE
    /\ tmpFiles = NoTmpFiles
    /\ outInit = NoFile
    /\ outFiles = [ p \in OutPaths |-> NoFile ]
    /\ output_file = ""
    /\ raw_bindings = NoFile
    /\ calls = <<>>
    /\ stages = <<>>
    /\ failed_stage = ""
    /\ exit_status = <<>>

TextInit ==
    /\ pc = "text"
    /\ RunIdle
    /\ data \in Texts
    /\ stripped = NoText
    /\ rewritten = NoText
    /\ twice = NoText

TextStrip ==
    /\ pc = "text"
    /\ stripped' = StripAll(data)
    /\ pc' = "stripped"
    /\ UNCHANGED <<runVars, data, rewritten, twice>>

TextRewrite ==
    /\ pc = "stripped"
    /\ rewritten' = RewriteBit(stripped)
    /\ pc' = "rewritten"
    /\ UNCHANGED <<runVars, data, stripped, twice>>

TextRewriteAgain ==
    /\ pc = "rewritten"
    /\ twice' = RewriteBit(rewritten)
    /\ pc' = "twice"
    /\ UNCHANGED <<runVars, data, stripped, rewritten>>

TextNext == TextStrip \/ TextRewrite \/ TextRewriteAgain

TextSpec == TextInit /\ [][TextNext]_vars

----------------------------------------------------------------------------
(* Vocabulary of the properties. *)

\* The lines of a text, without their newlines: n newlines make n + 1 lines.
RECURSIVE SplitLines(_)
SplitLines(text) ==
    LET e == LineEnd(text, 1)
    IN IF e > Len(text) THEN << text >>
       ELSE << SubSeq(text, 1, e - 1) >> \o SplitLines(SubSeq(text, e + 1, Len(text)))

\* s occurs in text character for character.
Occurs(s, text) ==
    \E j \in 1..(Len(text) - Len(s) + 1) : SubSeq(text, j, j + Len(s) - 1) = s

NamesFilename(line) == \E h \in HvNames : Occurs(Chars(h), line)

Upper == {"A","B","C","D","E","F","G","H","I","J","K","L","M",
          "N","O","P","Q","R","S","T","U","V","W","X","Y","Z"}

Digit == {"0","1","2","3","4","5","6","7","8","9"}

\* BIT(NAME) stands at i with a NAME of n uppercase letters, digits and
\* underscores.
BitAt(text, i, n) ==
    /\ n >= 1
    /\ i + n + 4 <= Len(text)
    /\ text[i] = "B" /\ text[i + 1] = "I" /\ text[i + 2] = "T" /\ text[i + 3] = "("
    /\ \A k \in 0..(n - 1) : text[i + 4 + k] \in Upper \cup Digit \cup {"_"}
    /\ text[i + 4 + n] = ")"

BitStarts(text) == { i \in 1..Len(text) : \E n \in 1..(Len(text) - i) : BitAt(text, i, n) }

BitNameLen(text, i) == CHOOSE n \in 1..Len(text) : BitAt(text, i, n)

\* Inside the occurrence of BIT(NAME) that starts at one of starts.
InBit(text, starts, p) ==
    \E i \in starts : i <= p /\ p <= i + 4 + BitNameLen(text, i)

\* (1 << (NAME))
ShiftExpr(name) == <<"(", "1", " ", "<", "<", " ", "(">> \o name \o <<")", ")">>

\* How far the occurrences that start before p move the text at p.
Moved(starts, p) == 4 * Cardinality({ i \in starts : i < p })

----------------------------------------------------------------------------
(* C4: every line of the concatenated text that names a hypervisor header  *)
(* (alone or with other text around the filename) is emptied by the        *)
(* filename loop, and the combined header names no hypervisor header.      *)
C4_NamedLinesStripped ==
    /\ pc = "stripped" =>
          LET dl == SplitLines(data)
              sl == SplitLines(stripped)
          IN /\ Len(sl) = Len(dl)
             /\ \A k \in 1..Len(dl) : NamesFilename(dl[k]) => sl[k] = <<>>
             /\ ~ NamesFilename(stripped)
    /\ pc = "rewritten" => ~ NamesFilename(CombinedText(rewritten))

\* A line with text before and after the filename has been emptied.
C4_Witness ==
    /\ pc = "rewritten"
    /\ \E k \in 1..Len(SplitLines(data)) :
          /\ Occurs(<<"1">> \o Chars("hvgdk.h") \o <<"A">>, SplitLines(data)[k])
          /\ SplitLines(stripped)[k] = <<>>

(* C5: every BIT(NAME) of the text is replaced by exactly (1 << (NAME)),   *)
(* the text outside the occurrences is kept, and no BIT(NAME) is left in   *)
(* the combined header.                                                    *)
C5_BitRewritten ==
    pc = "rewritten" =>
        LET starts == BitStarts(stripped)
        IN /\ Len(rewritten) = Len(stripped) + 4 * Cardinality(starts)
           /\ \A i \in starts :
                 LET n == BitNameLen(stripped, i)
                     q == i + Moved(starts, i)
                 IN SubSeq(rewritten, q, q + n + 8)
                        = ShiftExpr(SubSeq(stripped, i + 4, i + 3 + n))
           /\ \A p \in 1..Len(stripped) :
                 ~ InBit(stripped, starts, p)
                     => rewritten[p + Moved(starts, p)] = stripped[p]
           /\ BitStarts(rewritten) = {}
           /\ BitStarts(CombinedText(rewritten)) = {}

\* An occurrence with text before and after it has been rewritten.
C5_Witness ==
    /\ pc = "rewritten"
    /\ BitStarts(stripped) # {}
    /\ 1 \notin BitStarts(stripped)
    /\ Len(rewritten) > 4 + Len(ShiftExpr(<<"A", "_", "1">>))
    /\ Occurs(ShiftExpr(<<"A", "_", "1">>), rewritten)

(* C6: the BIT() rewrite applied to already rewritten text changes nothing. *)
C6_RewriteIdempotent == pc = "twice" => twice = rewritten

\* The nested form BIT(BIT(A_1) and an identifier ending in BIT went through
\* the rewrite twice.
C6_Witness ==
    /\ pc = "twice"
    /\ Occurs(BitOpen \o BitOpen \o <<"A", "_", "1", ")">>, stripped)
    /\ rewritten # stripped

C6_WitnessSuffix ==
    /\ pc = "twice"
    /\ Occurs(<<"A", "_", "1">> \o BitOpen \o <<"A", "_", "1", ")">>, stripped)

(* C10: the filename loop changes only the lines that name a hypervisor    *)
(* header literally; every other line is kept, and so is the line count.   *)
C10_OnlyLiteralLinesChange ==
    pc = "stripped" =>
        LET dl == SplitLines(data)
            sl == SplitLines(stripped)
        IN /\ Len(sl) = Len(dl)
           /\ \A k \in 1..Len(dl) : ~ NamesFilename(dl[k]) => sl[k] = dl[k]

====
